---- MODULE Spec2Model ----
(***************************************************************************)
(* Model of github-settings: the reconciliation of one GitHub repository   *)
(* (attributes, labels, branch protection, webhooks, topics) against the   *)
(* settings of a YAML file.                                                *)
(*                                                                         *)
(*   pkg/github (src/unnamed/part_002): Settings, GetSettingsFromFile,     *)
(*       Apply, GetSettingsFromGithub, createBranch                        *)
(*   pkg/github/update.go: the five reconcilers                            *)
(*                                                                         *)
(* Every remote call is one step; a call succeeds or fails as the remote   *)
(* decides.  `calls` records the remote calls of the current run in the    *)
(* order they are issued.                                                  *)
(***************************************************************************)
EXTENDS Integers, Sequences, FiniteSets, TLC

VARIABLES
    file,            \* the parsed content of the settings file (yaml.Unmarshal's result)
    settings,        \* *Settings handed to Apply (GetSettingsFromFile's result)
    remote,          \* the repository as GitHub holds it
    githubSettings,  \* the snapshot GetSettingsFromGithub builds
    pc,              \* position of the program
    err,             \* "none", "error" (Apply returned an error) or "panic"
    run,             \* 1 = first run of the program, 2 = second run
    calls,           \* remote calls issued in this run, in order
    kinds,           \* reconcilers entered in this run, in order
    idx,             \* index of the loop at pc
    toCreate,        \* labelsToCreate
    toUpdate,        \* labelsToUpdate / branchesToUpdate / webhooksToUpdate
    deleteMap        \* deleteLabelMap / deleteBranchesMap / deleteWebhooksMap

vars == <<file, settings, remote, githubSettings, pc, err, run, calls, kinds,
          idx, toCreate, toUpdate, deleteMap>>

----------------------------------------------------------------------------
(* Bounds of the model.                                                    *)

\* longest desired list (labels, branches, webhooks) of the per-reconciler specifications
MaxDesired == 2
\* longest remote list (labels, branches, hooks) of the per-reconciler specifications
MaxRemote == 2
\* most entries a remote list of the reader's specification holds beyond one page
MaxOverflow == 1

----------------------------------------------------------------------------
(* Go values.                                                              *)

\* A []string: nil and the empty non-nil slice are different values for
\* reflect.DeepEqual, so a slice carries its nil-ness.  With isNil => elems = <<>>
\* reflect.DeepEqual on slices is equality of these records.
NilSlice == [isNil |-> TRUE, elems |-> <<>>]

Slice(s) == [isNil |-> FALSE, elems |-> s]

\* A slice decoded from a JSON array is never nil (encoding/json makes an empty
\* slice for []); go-github's ReplaceAllTopics sends [] for nil.
FromJSON(sl) == Slice(sl.elems)

Min(a, b) == IF a <= b THEN a ELSE b

Range(s) == {s[i] : i \in 1..Len(s)}

\* all sequences over S of length at most n
SeqsUpTo(S, n) == UNION {[1..k -> S] : k \in 0..n}

\* the order of Go's string comparison on the strings the model uses
StringOrder == <<"a", "b", "c">>

StringRank(s) == CHOOSE i \in 1..Len(StringOrder) : StringOrder[i] = s

RECURSIVE InsertSorted(_, _)
InsertSorted(s, x) ==
    IF s = <<>> THEN <<x>>
    ELSE IF StringRank(x) <= StringRank(Head(s)) THEN <<x>> \o s
    ELSE <<Head(s)>> \o InsertSorted(Tail(s), x)

RECURSIVE SortedSeq(_)
SortedSeq(s) == IF s = <<>> THEN <<>> ELSE InsertSorted(SortedSeq(Tail(s)), Head(s))

\* sort.Strings on a slice, in place: a nil slice stays nil
SortStrings(sl) == [sl EXCEPT !.elems = SortedSeq(sl.elems)]

----------------------------------------------------------------------------
(* The Settings model.                                                     *)

ZeroRepository ==
    [Name |-> "", Owner |-> "", Description |-> "", Homepage |-> "",
     DefaultBranch |-> "", Private |-> FALSE, HasIssues |-> FALSE,
     HasProjects |-> FALSE, HasPages |-> FALSE, HasWiki |-> FALSE,
     HasDownloads |-> FALSE, IsTemplate |-> FALSE, Archived |-> FALSE,
     AllowSquashMerge |-> FALSE, AllowMergeCommit |-> FALSE,
     AllowRebaseMerge |-> FALSE]

Label(n, d, c) == [Name |-> n, Description |-> d, Color |-> c]

ZeroReview ==
    [RequiredApprovingReviewCount |-> 0, DismissStaleReviews |-> FALSE,
     RequireCodeOwnerReviews |-> FALSE]

ZeroStatusChecks == [Strict |-> FALSE, Contexts |-> NilSlice]

ZeroProtection ==
    [Enabled |-> FALSE, EnforceAdmins |-> FALSE,
     RequiredApprovingReviewCount |-> ZeroReview,
     RequiredStatusChecks |-> ZeroStatusChecks]

Branch(n, p) == [Name |-> n, Protection |-> p]

Webhook(id, url, ct, secret, events) ==
    [ID |-> id, URL |-> url, ContentType |-> ct, Secret |-> secret, Events |-> events]

ZeroSettings ==
    [Repository |-> ZeroRepository, Labels |-> <<>>, Branches |-> <<>>,
     Webhooks |-> <<>>, Topics |-> NilSlice]

----------------------------------------------------------------------------
(* The remote repository (what the GitHub API holds and returns).          *)

\* *github.PullRequestReviewsEnforcement / *github.RequiredStatusChecks of a
\* protection: a pointer, nil when GitHub reports no such block
NilPtr == [isNil |-> TRUE]

Ptr(v) == [isNil |-> FALSE, val |-> v]

\* protection as GitHub returns it (github.Protection)
GithubProtection(admins, reviews, checks) ==
    [EnforceAdmins |-> admins, RequiredPullRequestReviews |-> reviews,
     RequiredStatusChecks |-> checks]

NoGithubProtection == GithubProtection(FALSE, NilPtr, NilPtr)

\* a branch of the remote: its ref, the "protected" flag and the protection
RemoteBranch(n, commit, protected, p) ==
    [Name |-> n, Commit |-> commit, Protected |-> protected, Protection |-> p]

\* a value of a hook's Config map (map[string]interface{}): a string, or
\* anything else (the key missing, a number, null)
Str(s) == [isString |-> TRUE, val |-> s]

NotAString == [isString |-> FALSE, val |-> ""]

\* what GitHub reports for a stored secret: never the secret itself
MaskedSecret == "********"

RemoteHook(id, url, ct, secret, events) ==
    [ID |-> id, Config |-> [url |-> url, content_type |-> ct, secret |-> secret],
     Events |-> events]

\* number of entries a list call returns when ListOptions is left empty
PerPage == 30

\* &github.ListOptions{}: the first page of the list
FirstPage(list) == SubSeq(list, 1, Min(Len(list), PerPage))

----------------------------------------------------------------------------
(* GetSettingsFromFile.                                                    *)

\* mutant of NormalizeBranch: the review flags are left as the file has them
NormalizeBranchFlagsKept(b) == [b EXCEPT !.Protection.Enabled = TRUE]

\* the body of the loop over settings.Branches
NormalizeBranch(b) ==
    [b EXCEPT
        !.Protection.Enabled = TRUE,
        !.Protection.RequiredApprovingReviewCount.DismissStaleReviews =
            IF b.Protection.RequiredApprovingReviewCount.RequiredApprovingReviewCount = 0
            THEN FALSE ELSE @,
        !.Protection.RequiredApprovingReviewCount.RequireCodeOwnerReviews =
            IF b.Protection.RequiredApprovingReviewCount.RequiredApprovingReviewCount = 0
            THEN FALSE ELSE @]

\* the Settings GetSettingsFromFile returns for the unmarshalled content f
Normalize(f) ==
    [f EXCEPT !.Branches = [i \in 1..Len(f.Branches) |-> NormalizeBranch(f.Branches[i])]]

----------------------------------------------------------------------------
(* GetSettingsFromGithub: the conversions.                                 *)

\* a remote label as a label of the snapshot
LabelOf(l) == Label(l.Name, l.Description, l.Color)

\* the branch of the snapshot for a protected branch and its protection
ProtectedBranchOf(b) ==
    Branch(b.Name,
        [Enabled |-> TRUE,
         EnforceAdmins |-> b.Protection.EnforceAdmins,
         RequiredApprovingReviewCount |->
            IF b.Protection.RequiredPullRequestReviews.isNil THEN ZeroReview
            ELSE b.Protection.RequiredPullRequestReviews.val,
         RequiredStatusChecks |->
            [Strict |-> b.Protection.RequiredStatusChecks.val.Strict,
             Contexts |-> b.Protection.RequiredStatusChecks.val.Contexts]])

\* the branch of the snapshot for a branch GitHub does not flag protected
UnprotectedBranchOf(b) == Branch(b.Name, ZeroProtection)

\* githubProtection.RequiredStatusChecks.Strict dereferences the pointer
ProtectionPanics(b) == b.Protection.RequiredStatusChecks.isNil

\* hook.Config[key].(string) panics unless the value is a string
HookPanics(h) ==
    \/ ~h.Config.url.isString
    \/ ~h.Config.content_type.isString
    \/ ~h.Config.secret.isString

WebhookOf(h) ==
    Webhook(h.ID, h.Config.url.val, h.Config.content_type.val, h.Config.secret.val,
            h.Events)

\* the repository of the snapshot: HasPages is not copied
RepositoryOf(r) ==
    [Name |-> r.Name, Owner |-> r.Owner, Description |-> r.Description,
     Homepage |-> r.Homepage, DefaultBranch |-> r.DefaultBranch,
     Private |-> r.Private, HasIssues |-> r.HasIssues,
     HasProjects |-> r.HasProjects, HasPages |-> FALSE, HasWiki |-> r.HasWiki,
     HasDownloads |-> r.HasDownloads, IsTemplate |-> r.IsTemplate,
     Archived |-> r.Archived, AllowSquashMerge |-> r.AllowSquashMerge,
     AllowMergeCommit |-> r.AllowMergeCommit,
     AllowRebaseMerge |-> r.AllowRebaseMerge]

----------------------------------------------------------------------------
(* Remote calls.                                                           *)

NoArg == [none |-> TRUE]

\* one remote call: the operation, the name or the ID it addresses, its
\* payload, and whether GitHub answered without error
Call(op, name, id, arg, ok) == [op |-> op, name |-> name, id |-> id, arg |-> arg, ok |-> ok]

ReadOps == {"GetRepository", "ListLabels", "ListBranches", "GetBranchProtection", "ListHooks"}

WriteOps ==
    {"EditRepository", "CreateLabel", "EditLabel", "DeleteLabel", "Push",
     "UpdateBranchProtection", "RemoveBranchProtection", "CreateHook", "EditHook",
     "DeleteHook", "ReplaceTopics"}

\* mutant of ErrorReturn: the error of a call is dropped and the function goes on
ErrorIgnored(ok, next) == next

\* `if err != nil { return errors.Wrap(err, ...) }` after a call: the position
\* the program continues at
ErrorReturn(ok, next) == IF ok THEN next ELSE "done"

\* mutant of ReadErrorReturn: a failed read is not reported to Apply
ReadErrorIgnored(ok, next) == next

\* GetSettingsFromGithub's `if err != nil { return nil, errors.Wrap(err, ...) }`,
\* on which Apply returns the error before it calls a reconciler
ReadErrorReturn(ok, next) == IF ok THEN next ELSE "done"

\* the error Apply returns
ErrorValue(ok) == IF ok THEN err ELSE "error"

\* mutant of ApplyOrder: the branches are reconciled before the labels
ApplyOrderBranchesFirst == <<"Repo", "Branches", "Labels", "Hooks", "Topics">>

\* the reconcilers in the order Apply calls them
ApplyOrder == <<"Repo", "Labels", "Branches", "Hooks", "Topics">>

\* where Apply continues when the reconciler `kind` has returned nil
AfterKind(kind) ==
    LET i == CHOOSE k \in 1..Len(ApplyOrder) : ApplyOrder[k] = kind
    IN  IF i < Len(ApplyOrder) THEN ApplyOrder[i + 1] ELSE "return"

\* the loops of a reconciler follow each other as `phases` lists them
PhaseAfter(phases, p, exit) ==
    LET i == CHOOSE k \in 1..Len(phases) : phases[k] = p
    IN  IF i < Len(phases) THEN phases[i + 1] ELSE exit

\* a Go map with the key k deleted
MapDelete(m, k) == [x \in DOMAIN m \ {k} |-> m[x]]

EmptyMap == [x \in {} |-> x]

----------------------------------------------------------------------------
(* The program: main, GetSettingsFromFile, Apply.                          *)

locals == <<idx, toCreate, toUpdate, deleteMap>>

\* main: settings, err := github.GetSettingsFromFile(...); client.Apply(settings)
GetSettingsFromFile ==
    /\ pc = "load"
    /\ settings' = Normalize(file)
    /\ pc' = "GetRepository"
    /\ UNCHANGED <<file, remote, githubSettings, err, run, calls, kinds, locals>>

\* ioutil.ReadFile or yaml.Unmarshal fails: GetSettingsFromFile returns
\* (nil, err) and main stops with log.Fatal before Apply is called
GetSettingsFromFileError ==
    /\ pc = "load"
    /\ pc' = "done"
    /\ err' = "error"
    /\ UNCHANGED <<file, settings, remote, githubSettings, run, calls, kinds, locals>>

----------------------------------------------------------------------------
(* GetSettingsFromGithub, one remote read per step.                        *)

GetRepository ==
    /\ pc = "GetRepository"
    /\ \E ok \in BOOLEAN :
        /\ calls' = Append(calls, Call("GetRepository", "", 0, NoArg, ok))
        /\ githubSettings' =
             IF ok THEN [githubSettings EXCEPT !.Repository = RepositoryOf(remote.repo),
                                               !.Topics = remote.topics]
             ELSE githubSettings
        /\ pc' = ReadErrorReturn(ok, "ListLabels")
        /\ err' = ErrorValue(ok)
    /\ UNCHANGED <<file, settings, remote, run, kinds, locals>>

ListLabels ==
    /\ pc = "ListLabels"
    /\ \E ok \in BOOLEAN :
        /\ calls' = Append(calls, Call("ListLabels", "", 0, NoArg, ok))
        /\ githubSettings' =
             IF ok THEN [githubSettings EXCEPT !.Labels =
                            [i \in 1..Len(FirstPage(remote.labels)) |->
                                LabelOf(FirstPage(remote.labels)[i])]]
             ELSE githubSettings
        /\ pc' = ReadErrorReturn(ok, "ListBranches")
        /\ err' = ErrorValue(ok)
    /\ UNCHANGED <<file, settings, remote, run, kinds, locals>>

ListBranches ==
    /\ pc = "ListBranches"
    /\ \E ok \in BOOLEAN :
        /\ calls' = Append(calls, Call("ListBranches", "", 0, NoArg, ok))
        /\ pc' = ReadErrorReturn(ok, "GetBranchProtection")
        /\ err' = ErrorValue(ok)
    /\ idx' = 1
    /\ UNCHANGED <<file, settings, remote, githubSettings, run, kinds, toCreate,
                   toUpdate, deleteMap>>

\* the loop over githubBranches: a branch flagged protected
GetBranchProtection ==
    /\ pc = "GetBranchProtection"
    /\ idx <= Len(FirstPage(remote.branches))
    /\ LET b == FirstPage(remote.branches)[idx] IN
        /\ b.Protected
        /\ \E ok \in BOOLEAN :
            /\ calls' = Append(calls, Call("GetBranchProtection", b.Name, 0, NoArg, ok))
            /\ IF ~ok
               THEN /\ pc' = ReadErrorReturn(ok, pc)
                    /\ err' = "error"
                    /\ UNCHANGED githubSettings
               ELSE IF ProtectionPanics(b)
               THEN /\ pc' = "done"
                    /\ err' = "panic"
                    /\ UNCHANGED githubSettings
               ELSE /\ pc' = pc
                    /\ err' = err
                    /\ githubSettings' =
                        [githubSettings EXCEPT !.Branches = Append(@, ProtectedBranchOf(b))]
    /\ idx' = idx + 1
    /\ UNCHANGED <<file, settings, remote, run, kinds, toCreate, toUpdate, deleteMap>>

\* the loop over githubBranches: a branch not flagged protected (no remote call)
UnprotectedBranch ==
    /\ pc = "GetBranchProtection"
    /\ idx <= Len(FirstPage(remote.branches))
    /\ LET b == FirstPage(remote.branches)[idx] IN
        /\ ~b.Protected
        /\ githubSettings' =
            [githubSettings EXCEPT !.Branches = Append(@, UnprotectedBranchOf(b))]
    /\ idx' = idx + 1
    /\ UNCHANGED <<file, settings, remote, pc, err, run, calls, kinds, toCreate,
                   toUpdate, deleteMap>>

\* ListHooks and the conversion of the hooks; then Apply calls the first reconciler
ListHooks ==
    /\ pc = "GetBranchProtection"
    /\ idx > Len(FirstPage(remote.branches))
    /\ \E ok \in BOOLEAN :
        /\ calls' = Append(calls, Call("ListHooks", "", 0, NoArg, ok))
        /\ LET hooks == FirstPage(remote.hooks) IN
           IF ~ok
           THEN /\ pc' = ReadErrorReturn(ok, ApplyOrder[1])
                /\ err' = "error"
                /\ UNCHANGED githubSettings
           ELSE IF \E i \in 1..Len(hooks) : HookPanics(hooks[i])
           THEN /\ pc' = "done"
                /\ err' = "panic"
                /\ UNCHANGED githubSettings
           ELSE /\ pc' = ApplyOrder[1]
                /\ err' = err
                /\ githubSettings' =
                    [githubSettings EXCEPT !.Webhooks =
                        [i \in 1..Len(hooks) |-> WebhookOf(hooks[i])]]
    /\ idx' = 1
    /\ UNCHANGED <<file, settings, remote, run, kinds, toCreate, toUpdate, deleteMap>>

----------------------------------------------------------------------------
(* updateRepoSettings.                                                     *)

\* the fields Repositories.Edit sends, applied to the remote repository r
EditedRepository(r, repo) ==
    [repo EXCEPT !.Name = r.Name, !.Owner = r.Owner]

updateRepoSettingsEqual ==
    /\ pc = "Repo"
    /\ githubSettings.Repository = settings.Repository
    /\ kinds' = Append(kinds, "Repo")
    /\ pc' = AfterKind("Repo")
    /\ UNCHANGED <<file, settings, remote, githubSettings, err, run, calls, locals>>

updateRepoSettingsEdit ==
    /\ pc = "Repo"
    /\ githubSettings.Repository # settings.Repository
    /\ kinds' = Append(kinds, "Repo")
    /\ \E ok \in BOOLEAN :
        /\ calls' = Append(calls, Call("EditRepository", "", 0, settings.Repository, ok))
        /\ remote' = IF ok THEN [remote EXCEPT !.repo = EditedRepository(@, settings.Repository)]
                     ELSE remote
        /\ pc' = ErrorReturn(ok, AfterKind("Repo"))
        /\ err' = ErrorValue(ok)
    /\ UNCHANGED <<file, settings, githubSettings, run, locals>>

----------------------------------------------------------------------------
(* updateLabels.                                                           *)

\* for _, githubLabel := range githubLabels { deleteLabelMap[githubLabel.Name] = githubLabel }
LabelMap(githubLabels) ==
    [n \in {githubLabels[i].Name : i \in 1..Len(githubLabels)} |->
        githubLabels[CHOOSE i \in 1..Len(githubLabels) :
            /\ githubLabels[i].Name = n
            /\ \A j \in i + 1..Len(githubLabels) : githubLabels[j].Name # n]]

\* the body of the loop over labelsSettings
ClassifyLabel(st, labelSetting) ==
    IF labelSetting.Name \notin DOMAIN st.del
    THEN [st EXCEPT !.create = Append(@, labelSetting)]
    ELSE [st EXCEPT !.del = MapDelete(@, labelSetting.Name),
                    !.update = IF labelSetting # st.del[labelSetting.Name]
                               THEN Append(@, labelSetting) ELSE @]

RECURSIVE ClassifyLabels(_, _)
ClassifyLabels(st, labelsSettings) ==
    IF labelsSettings = <<>> THEN st
    ELSE ClassifyLabels(ClassifyLabel(st, Head(labelsSettings)), Tail(labelsSettings))

\* mutant of LabelPhases: the creations are issued before the deletions
LabelPhasesCreateFirst == <<"LabelsCreate", "LabelsDelete", "LabelsUpdate">>

\* the three loops of remote calls, in the order of the function body
LabelPhases == <<"LabelsDelete", "LabelsCreate", "LabelsUpdate">>

updateLabels ==
    /\ pc = "Labels"
    /\ kinds' = Append(kinds, "Labels")
    /\ LET st == ClassifyLabels([create |-> <<>>, update |-> <<>>,
                                 del |-> LabelMap(githubSettings.Labels)],
                                settings.Labels)
       IN  /\ toCreate' = st.create
           /\ toUpdate' = st.update
           /\ deleteMap' = st.del
    /\ idx' = 1
    /\ pc' = LabelPhases[1]
    /\ UNCHANGED <<file, settings, remote, githubSettings, err, run, calls>>

\* The remote API is an abstract client: any call may succeed or fail.  What a
\* successful call leaves on the remote:

LabelsDeleted(labels, name) == SelectSeq(labels, LAMBDA l : l.Name # name)

LabelsCreated(labels, newLabel) == Append(labels, newLabel)

LabelsEdited(labels, name, updateLabel) ==
    [i \in 1..Len(labels) |-> IF labels[i].Name = name THEN updateLabel ELSE labels[i]]

\* for labelName := range deleteLabelMap: Go visits the keys in any order
DeleteLabel ==
    /\ pc = "LabelsDelete"
    /\ \E labelName \in DOMAIN deleteMap :
        \E ok \in BOOLEAN :
            /\ calls' = Append(calls, Call("DeleteLabel", labelName, 0, NoArg, ok))
            /\ remote' = IF ok THEN [remote EXCEPT !.labels = LabelsDeleted(@, labelName)]
                         ELSE remote
            /\ deleteMap' = MapDelete(deleteMap, labelName)
            /\ pc' = ErrorReturn(ok, pc)
            /\ err' = ErrorValue(ok)
    /\ UNCHANGED <<file, settings, githubSettings, run, kinds, idx, toCreate, toUpdate>>

DeleteLabelEnd ==
    /\ pc = "LabelsDelete"
    /\ DOMAIN deleteMap = {}
    /\ pc' = PhaseAfter(LabelPhases, pc, AfterKind("Labels"))
    /\ idx' = 1
    /\ UNCHANGED <<file, settings, remote, githubSettings, err, run, calls, kinds,
                   toCreate, toUpdate, deleteMap>>

CreateLabel ==
    /\ pc = "LabelsCreate"
    /\ idx <= Len(toCreate)
    /\ LET newLabel == toCreate[idx] IN
        \E ok \in BOOLEAN :
            /\ calls' = Append(calls, Call("CreateLabel", newLabel.Name, 0, newLabel, ok))
            /\ remote' = IF ok THEN [remote EXCEPT !.labels = LabelsCreated(@, newLabel)]
                         ELSE remote
            /\ pc' = ErrorReturn(ok, pc)
            /\ err' = ErrorValue(ok)
    /\ idx' = idx + 1
    /\ UNCHANGED <<file, settings, githubSettings, run, kinds, toCreate, toUpdate, deleteMap>>

CreateLabelEnd ==
    /\ pc = "LabelsCreate"
    /\ idx > Len(toCreate)
    /\ pc' = PhaseAfter(LabelPhases, pc, AfterKind("Labels"))
    /\ idx' = 1
    /\ UNCHANGED <<file, settings, remote, githubSettings, err, run, calls, kinds,
                   toCreate, toUpdate, deleteMap>>

EditLabel ==
    /\ pc = "LabelsUpdate"
    /\ idx <= Len(toUpdate)
    /\ LET updateLabel == toUpdate[idx] IN
        \E ok \in BOOLEAN :
            /\ calls' = Append(calls, Call("EditLabel", updateLabel.Name, 0, updateLabel, ok))
            /\ remote' = IF ok THEN [remote EXCEPT !.labels = LabelsEdited(@, updateLabel.Name, updateLabel)]
                         ELSE remote
            /\ pc' = ErrorReturn(ok, pc)
            /\ err' = ErrorValue(ok)
    /\ idx' = idx + 1
    /\ UNCHANGED <<file, settings, githubSettings, run, kinds, toCreate, toUpdate, deleteMap>>

EditLabelEnd ==
    /\ pc = "LabelsUpdate"
    /\ idx > Len(toUpdate)
    /\ pc' = PhaseAfter(LabelPhases, pc, AfterKind("Labels"))
    /\ idx' = 1
    /\ UNCHANGED <<file, settings, remote, githubSettings, err, run, calls, kinds,
                   toCreate, toUpdate, deleteMap>>

----------------------------------------------------------------------------
(* createBranch: the Branch Materializer.                                  *)

HasBranch(name) == \E i \in 1..Len(remote.branches) : remote.branches[i].Name = name

BranchIndex(name) == CHOOSE i \in 1..Len(remote.branches) : remote.branches[i].Name = name

\* git.Clone checks out the default branch; repo.Head() is its head commit
HeadCommit == remote.branches[BranchIndex(remote.repo.DefaultBranch)].Commit

\* createBranch is declared with a list of branch names and is called by
\* updateBranchSettings with one name: the list of that one name.
\* The step at which createBranch returns: an error of git.Clone, of repo.Head,
\* of Storer.SetReference or of repo.Push, or nil
CreateBranchOutcomes ==
    IF HasBranch(remote.repo.DefaultBranch)
    THEN {"clone", "head", "setref", "push", "ok"}
    ELSE {"clone"}

\* the remote calls of createBranch(<<name>>, url) that ends with `outcome`; the
\* clone is recorded with the branch createBranch was called for
CreateBranchCalls(name, outcome) ==
    IF outcome = "clone" THEN <<Call("Clone", name, 0, NoArg, FALSE)>>
    ELSE IF outcome \in {"head", "setref"} THEN <<Call("Clone", name, 0, NoArg, TRUE)>>
    ELSE <<Call("Clone", name, 0, NoArg, TRUE),
           Call("Push", name, 0, [ref |-> "refs/heads/" \o name, hash |-> HeadCommit],
                outcome = "ok")>>

\* the remote branches after the push of refs/heads/<name> at `hash`
Pushed(branches, name, hash) ==
    IF \E i \in 1..Len(branches) : branches[i].Name = name
    THEN [i \in 1..Len(branches) |->
            IF branches[i].Name = name THEN [branches[i] EXCEPT !.Commit = hash]
            ELSE branches[i]]
    ELSE Append(branches, RemoteBranch(name, hash, FALSE, NoGithubProtection))

----------------------------------------------------------------------------
(* updateBranchSettings.                                                   *)

\* mutant of BranchMap: only the protected branches of the snapshot are entered
BranchMapProtected(githubBranches) ==
    [n \in {githubBranches[i].Name : i \in {k \in 1..Len(githubBranches) :
                                                githubBranches[k].Protection.Enabled}} |->
        githubBranches[CHOOSE i \in 1..Len(githubBranches) : githubBranches[i].Name = n]]

\* for _, githubBranch := range githubBranches { deleteBranchesMap[githubBranch.Name] = githubBranch }
BranchMap(githubBranches) ==
    [n \in {githubBranches[i].Name : i \in 1..Len(githubBranches)} |->
        githubBranches[CHOOSE i \in 1..Len(githubBranches) :
            /\ githubBranches[i].Name = n
            /\ \A j \in i + 1..Len(githubBranches) : githubBranches[j].Name # n]]

\* the loops of the function body, in order
BranchPhases == <<"BranchesClassify", "BranchesRemove", "BranchesUpdate">>

updateBranchSettings ==
    /\ pc = "Branches"
    /\ kinds' = Append(kinds, "Branches")
    /\ toUpdate' = <<>>
    /\ deleteMap' = BranchMap(githubSettings.Branches)
    /\ idx' = 1
    /\ pc' = BranchPhases[1]
    /\ UNCHANGED <<file, settings, remote, githubSettings, err, run, calls, toCreate>>

\* mutant of ScheduleCreated: a created branch is not scheduled for its update
ScheduleForgotten(branchesToUpdate, branchSettings) == branchesToUpdate

\* branchesToUpdate = append(branchesToUpdate, branchSettings) after createBranch
ScheduleCreated(branchesToUpdate, branchSettings) == Append(branchesToUpdate, branchSettings)

\* the loop over branchesSettings: a name with no entry in deleteBranchesMap
CreateBranch ==
    /\ pc = "BranchesClassify"
    /\ idx <= Len(settings.Branches)
    /\ LET branchSettings == settings.Branches[idx] IN
        /\ branchSettings.Name \notin DOMAIN deleteMap
        /\ \E outcome \in CreateBranchOutcomes :
            /\ calls' = calls \o CreateBranchCalls(branchSettings.Name, outcome)
            /\ remote' = IF outcome = "ok"
                         THEN [remote EXCEPT !.branches =
                                  Pushed(@, branchSettings.Name, HeadCommit)]
                         ELSE remote
            /\ toUpdate' = IF outcome = "ok" THEN ScheduleCreated(toUpdate, branchSettings)
                           ELSE toUpdate
            /\ pc' = ErrorReturn(outcome = "ok", pc)
            /\ err' = ErrorValue(outcome = "ok")
    /\ idx' = idx + 1
    /\ UNCHANGED <<file, settings, githubSettings, run, kinds, toCreate, deleteMap>>

\* the loop over branchesSettings: a name found in deleteBranchesMap
CompareBranch ==
    /\ pc = "BranchesClassify"
    /\ idx <= Len(settings.Branches)
    /\ LET branchSettings == settings.Branches[idx] IN
        /\ branchSettings.Name \in DOMAIN deleteMap
        /\ deleteMap' = MapDelete(deleteMap, branchSettings.Name)
        /\ toUpdate' = IF deleteMap[branchSettings.Name] # branchSettings
                       THEN Append(toUpdate, branchSettings) ELSE toUpdate
    /\ idx' = idx + 1
    /\ UNCHANGED <<file, settings, remote, githubSettings, pc, err, run, calls, kinds,
                   toCreate>>

ClassifyBranchesEnd ==
    /\ pc = "BranchesClassify"
    /\ idx > Len(settings.Branches)
    /\ pc' = PhaseAfter(BranchPhases, pc, AfterKind("Branches"))
    /\ idx' = 1
    /\ UNCHANGED <<file, settings, remote, githubSettings, err, run, calls, kinds,
                   toCreate, toUpdate, deleteMap>>

\* the remote branches once RemoveBranchProtection(name) has succeeded
ProtectionRemoved(branches, name) ==
    [i \in 1..Len(branches) |->
        IF branches[i].Name = name
        THEN [branches[i] EXCEPT !.Protected = FALSE, !.Protection = NoGithubProtection]
        ELSE branches[i]]

\* for branchToDelete := range deleteBranchesMap: the keys in any order
RemoveBranchProtection ==
    /\ pc = "BranchesRemove"
    /\ \E branchToDelete \in DOMAIN deleteMap :
        \E ok \in BOOLEAN :
            /\ calls' = Append(calls, Call("RemoveBranchProtection", branchToDelete, 0, NoArg, ok))
            /\ remote' =
                IF ok
                THEN [remote EXCEPT !.branches = ProtectionRemoved(@, branchToDelete)]
                ELSE remote
            /\ deleteMap' = MapDelete(deleteMap, branchToDelete)
            /\ pc' = ErrorReturn(ok, pc)
            /\ err' = ErrorValue(ok)
    /\ UNCHANGED <<file, settings, githubSettings, run, kinds, idx, toCreate, toUpdate>>

RemoveBranchProtectionEnd ==
    /\ pc = "BranchesRemove"
    /\ DOMAIN deleteMap = {}
    /\ pc' = PhaseAfter(BranchPhases, pc, AfterKind("Branches"))
    /\ idx' = 1
    /\ UNCHANGED <<file, settings, remote, githubSettings, err, run, calls, kinds,
                   toCreate, toUpdate, deleteMap>>

\* the github.ProtectionRequest built from a desired branch
ProtectionRequest(branchSettings) ==
    [EnforceAdmins |-> branchSettings.Protection.EnforceAdmins,
     RequiredStatusChecks |->
        [Strict |-> branchSettings.Protection.RequiredStatusChecks.Strict,
         Contexts |-> branchSettings.Protection.RequiredStatusChecks.Contexts],
     RequiredPullRequestReviews |->
        IF branchSettings.Protection.RequiredApprovingReviewCount.RequiredApprovingReviewCount = 0
        THEN NilPtr
        ELSE Ptr(branchSettings.Protection.RequiredApprovingReviewCount)]

\* the protection GitHub holds once it has accepted the request
ProtectionStored(req) ==
    GithubProtection(req.EnforceAdmins, req.RequiredPullRequestReviews,
        Ptr([Strict |-> req.RequiredStatusChecks.Strict,
             Contexts |-> FromJSON(req.RequiredStatusChecks.Contexts)]))

\* the remote branches once UpdateBranchProtection(name, req) has succeeded
ProtectionUpdated(branches, name, req) ==
    [i \in 1..Len(branches) |->
        IF branches[i].Name = name
        THEN [branches[i] EXCEPT !.Protected = TRUE, !.Protection = ProtectionStored(req)]
        ELSE branches[i]]

UpdateBranchProtection ==
    /\ pc = "BranchesUpdate"
    /\ idx <= Len(toUpdate)
    /\ LET branchSettings == toUpdate[idx] IN
        \E ok \in BOOLEAN :
            /\ calls' = Append(calls, Call("UpdateBranchProtection", branchSettings.Name, 0,
                                           ProtectionRequest(branchSettings), ok))
            /\ remote' =
                IF ok
                THEN [remote EXCEPT !.branches =
                        ProtectionUpdated(@, branchSettings.Name,
                                          ProtectionRequest(branchSettings))]
                ELSE remote
            /\ pc' = ErrorReturn(ok, pc)
            /\ err' = ErrorValue(ok)
    /\ idx' = idx + 1
    /\ UNCHANGED <<file, settings, githubSettings, run, kinds, toCreate, toUpdate, deleteMap>>

UpdateBranchProtectionEnd ==
    /\ pc = "BranchesUpdate"
    /\ idx > Len(toUpdate)
    /\ pc' = PhaseAfter(BranchPhases, pc, AfterKind("Branches"))
    /\ idx' = 1
    /\ UNCHANGED <<file, settings, remote, githubSettings, err, run, calls, kinds,
                   toCreate, toUpdate, deleteMap>>

----------------------------------------------------------------------------
(* updateWebhooks.                                                         *)

\* deleteWebhooksMap[githubWebhook.URL] = githubWebhook: the last hook of a URL stays
WebhookMap(githubWebhooks) ==
    [u \in {githubWebhooks[i].URL : i \in 1..Len(githubWebhooks)} |->
        githubWebhooks[CHOOSE i \in 1..Len(githubWebhooks) :
            /\ githubWebhooks[i].URL = u
            /\ \A j \in i + 1..Len(githubWebhooks) : githubWebhooks[j].URL # u]]

\* mutant of HookPhases: the hooks are edited before the deletions
HookPhasesUpdateFirst == <<"HooksClassify", "HooksUpdate", "HooksDelete">>

\* the loops of the function body, in order
HookPhases == <<"HooksClassify", "HooksDelete", "HooksUpdate">>

updateWebhooks ==
    /\ pc = "Hooks"
    /\ kinds' = Append(kinds, "Hooks")
    /\ toUpdate' = <<>>
    /\ deleteMap' = WebhookMap(githubSettings.Webhooks)
    /\ idx' = 1
    /\ pc' = HookPhases[1]
    /\ UNCHANGED <<file, settings, remote, githubSettings, err, run, calls, toCreate>>

\* the github.Hook sent by CreateHook and EditHook
HookRequest(w) ==
    [Events |-> w.Events, Active |-> TRUE,
     Config |-> [content_type |-> w.ContentType, secret |-> w.Secret, url |-> w.URL]]

\* Events is sent with omitempty: GitHub subscribes a hook without events to push
EventsStored(events) == IF events.elems = <<>> THEN Slice(<<"push">>) ELSE Slice(events.elems)

\* the hook GitHub holds for a request: the secret is stored, never reported
HookStored(id, req) ==
    RemoteHook(id, Str(req.Config.url), Str(req.Config.content_type), Str(MaskedSecret),
               EventsStored(req.Events))

HooksDeleted(hooks, id) == SelectSeq(hooks, LAMBDA h : h.ID # id)

HooksEdited(hooks, id, req) ==
    [i \in 1..Len(hooks) |-> IF hooks[i].ID = id THEN HookStored(id, req) ELSE hooks[i]]

\* the loop over webhooksSettings: a URL with no entry in deleteWebhooksMap
CreateHook ==
    /\ pc = "HooksClassify"
    /\ idx <= Len(settings.Webhooks)
    /\ LET webhookSettings == settings.Webhooks[idx] IN
        /\ webhookSettings.URL \notin DOMAIN deleteMap
        /\ \E ok \in BOOLEAN :
            /\ calls' = Append(calls, Call("CreateHook", webhookSettings.URL, 0,
                                           HookRequest(webhookSettings), ok))
            /\ remote' =
                IF ok
                THEN [remote EXCEPT
                        !.hooks = Append(@, HookStored(remote.nextID, HookRequest(webhookSettings))),
                        !.nextID = @ + 1]
                ELSE remote
            /\ pc' = ErrorReturn(ok, pc)
            /\ err' = ErrorValue(ok)
    /\ idx' = idx + 1
    /\ UNCHANGED <<file, settings, githubSettings, run, kinds, toCreate, toUpdate, deleteMap>>

\* webhookSettings.ID = githubWebhook.ID; githubWebhook.Secret = webhookSettings.Secret:
\* both are copies local to the loop body
WithID(webhookSettings, githubWebhook) == [webhookSettings EXCEPT !.ID = githubWebhook.ID]

\* mutant of WithSecret: the desired secret is not copied onto the remote record
WithSecretUncopied(githubWebhook, webhookSettings) == githubWebhook

WithSecret(githubWebhook, webhookSettings) ==
    [githubWebhook EXCEPT !.Secret = webhookSettings.Secret]

\* if !reflect.DeepEqual(githubWebhook, webhookSettings)
WebhookDiffers(githubWebhook, webhookSettings) ==
    WithSecret(githubWebhook, webhookSettings) # WithID(webhookSettings, githubWebhook)

\* the loop over webhooksSettings: a URL found in deleteWebhooksMap
CompareHook ==
    /\ pc = "HooksClassify"
    /\ idx <= Len(settings.Webhooks)
    /\ LET webhookSettings == settings.Webhooks[idx] IN
        /\ webhookSettings.URL \in DOMAIN deleteMap
        /\ deleteMap' = MapDelete(deleteMap, webhookSettings.URL)
        /\ toUpdate' =
            IF WebhookDiffers(deleteMap[webhookSettings.URL], webhookSettings)
            THEN Append(toUpdate, WithID(webhookSettings, deleteMap[webhookSettings.URL]))
            ELSE toUpdate
    /\ idx' = idx + 1
    /\ UNCHANGED <<file, settings, remote, githubSettings, pc, err, run, calls, kinds,
                   toCreate>>

ClassifyHooksEnd ==
    /\ pc = "HooksClassify"
    /\ idx > Len(settings.Webhooks)
    /\ pc' = PhaseAfter(HookPhases, pc, AfterKind("Hooks"))
    /\ idx' = 1
    /\ UNCHANGED <<file, settings, remote, githubSettings, err, run, calls, kinds,
                   toCreate, toUpdate, deleteMap>>

\* for _, webhookToDelete := range deleteWebhooksMap: the entries in any order
DeleteHook ==
    /\ pc = "HooksDelete"
    /\ \E url \in DOMAIN deleteMap :
        LET webhookToDelete == deleteMap[url] IN
        \E ok \in BOOLEAN :
            /\ calls' = Append(calls, Call("DeleteHook", url, webhookToDelete.ID, NoArg, ok))
            /\ remote' = IF ok THEN [remote EXCEPT !.hooks = HooksDeleted(@, webhookToDelete.ID)]
                         ELSE remote
            /\ deleteMap' = MapDelete(deleteMap, url)
            /\ pc' = ErrorReturn(ok, pc)
            /\ err' = ErrorValue(ok)
    /\ UNCHANGED <<file, settings, githubSettings, run, kinds, idx, toCreate, toUpdate>>

DeleteHookEnd ==
    /\ pc = "HooksDelete"
    /\ DOMAIN deleteMap = {}
    /\ pc' = PhaseAfter(HookPhases, pc, AfterKind("Hooks"))
    /\ idx' = 1
    /\ UNCHANGED <<file, settings, remote, githubSettings, err, run, calls, kinds,
                   toCreate, toUpdate, deleteMap>>

EditHook ==
    /\ pc = "HooksUpdate"
    /\ idx <= Len(toUpdate)
    /\ LET webhookToUpdate == toUpdate[idx] IN
        \E ok \in BOOLEAN :
            /\ calls' = Append(calls, Call("EditHook", webhookToUpdate.URL, webhookToUpdate.ID,
                                           HookRequest(webhookToUpdate), ok))
            /\ remote' =
                IF ok
                THEN [remote EXCEPT !.hooks =
                        HooksEdited(@, webhookToUpdate.ID, HookRequest(webhookToUpdate))]
                ELSE remote
            /\ pc' = ErrorReturn(ok, pc)
            /\ err' = ErrorValue(ok)
    /\ idx' = idx + 1
    /\ UNCHANGED <<file, settings, githubSettings, run, kinds, toCreate, toUpdate, deleteMap>>

EditHookEnd ==
    /\ pc = "HooksUpdate"
    /\ idx > Len(toUpdate)
    /\ pc' = PhaseAfter(HookPhases, pc, AfterKind("Hooks"))
    /\ idx' = 1
    /\ UNCHANGED <<file, settings, remote, githubSettings, err, run, calls, kinds,
                   toCreate, toUpdate, deleteMap>>

----------------------------------------------------------------------------
(* updateTopicsSettings.                                                   *)

\* sort.Strings(githubTopics); sort.Strings(topics): both slices are sorted in
\* place, the second one being settings.Topics of the caller
updateTopicsSettingsEqual ==
    /\ pc = "Topics"
    /\ kinds' = Append(kinds, "Topics")
    /\ githubSettings' = [githubSettings EXCEPT !.Topics = SortStrings(@)]
    /\ settings' = [settings EXCEPT !.Topics = SortStrings(@)]
    /\ SortStrings(githubSettings.Topics) = SortStrings(settings.Topics)
    /\ pc' = AfterKind("Topics")
    /\ UNCHANGED <<file, remote, err, run, calls, locals>>

ReplaceAllTopics ==
    /\ pc = "Topics"
    /\ kinds' = Append(kinds, "Topics")
    /\ githubSettings' = [githubSettings EXCEPT !.Topics = SortStrings(@)]
    /\ settings' = [settings EXCEPT !.Topics = SortStrings(@)]
    /\ SortStrings(githubSettings.Topics) # SortStrings(settings.Topics)
    /\ \E ok \in BOOLEAN :
        /\ calls' = Append(calls, Call("ReplaceTopics", "", 0, SortStrings(settings.Topics), ok))
        /\ remote' = IF ok THEN [remote EXCEPT !.topics = FromJSON(SortStrings(settings.Topics))]
                     ELSE remote
        /\ pc' = ErrorReturn(ok, AfterKind("Topics"))
        /\ err' = ErrorValue(ok)
    /\ UNCHANGED <<file, run, locals>>

----------------------------------------------------------------------------
(* The end of Apply, and the program run once more.                        *)

\* return nil
ApplyReturn ==
    /\ pc = "return"
    /\ pc' = "done"
    /\ UNCHANGED <<file, settings, remote, githubSettings, err, run, calls, kinds, locals>>

\* the program is started again with the same settings file; nothing else
\* has touched the repository
SecondRun ==
    /\ pc = "done"
    /\ err = "none"
    /\ run = 1
    /\ run' = 2
    /\ pc' = "load"
    /\ settings' = ZeroSettings
    /\ githubSettings' = ZeroSettings
    /\ calls' = <<>>
    /\ kinds' = <<>>
    /\ idx' = 1
    /\ toCreate' = <<>>
    /\ toUpdate' = <<>>
    /\ deleteMap' = EmptyMap
    /\ UNCHANGED <<file, remote, err>>

----------------------------------------------------------------------------
(* The values the settings file and the remote repository are drawn from.  *)

Repo(description, pages) ==
    [ZeroRepository EXCEPT !.Name = "repo", !.Owner = "owner",
                           !.Description = description, !.DefaultBranch = "main",
                           !.HasIssues = TRUE, !.HasPages = pages]

\* labels of a settings file: a name may be listed more than once
FileLabels ==
    {Label(n, d, c) : n \in {"bug", "feat"}, d \in {"", "text"}, c \in {"red", "blue"}}

\* labels of the remote: GitHub keeps label names unique
RemoteLabels ==
    {Label(n, d, c) : n \in {"bug", "old"}, d \in {"", "text"}, c \in {"red"}}

UniqueNames(s) == \A i, j \in 1..Len(s) : i # j => s[i].Name # s[j].Name

Protection(enabled, admins, count, dismiss, contexts) ==
    [Enabled |-> enabled, EnforceAdmins |-> admins,
     RequiredApprovingReviewCount |->
        [RequiredApprovingReviewCount |-> count, DismissStaleReviews |-> dismiss,
         RequireCodeOwnerReviews |-> FALSE],
     RequiredStatusChecks |-> [Strict |-> FALSE, Contexts |-> contexts]]

\* protection records of a settings file, as yaml.Unmarshal leaves them
FileProtections ==
    {Protection(FALSE, FALSE, 0, FALSE, NilSlice),
     Protection(FALSE, FALSE, 0, TRUE, Slice(<<>>)),
     Protection(FALSE, FALSE, 1, TRUE, Slice(<<>>)),
     Protection(TRUE, TRUE, 0, FALSE, Slice(<<"ci">>))}

FileBranches == {Branch(n, p) : n \in {"main", "dev"}, p \in FileProtections}

\* the branches yaml.Unmarshal can leave in settings.Branches: every value of
\* the enabled flag, of the review count and of the two review flags
RawBranches ==
    {Branch(n, [Enabled |-> e, EnforceAdmins |-> FALSE,
                RequiredApprovingReviewCount |->
                    [RequiredApprovingReviewCount |-> c, DismissStaleReviews |-> d,
                     RequireCodeOwnerReviews |-> o],
                RequiredStatusChecks |-> ZeroStatusChecks]) :
        n \in {"main", "dev"}, e \in BOOLEAN, c \in {0, 1}, d \in BOOLEAN, o \in BOOLEAN}

\* protections GitHub reports: with and without the optional blocks
RemoteProtections ==
    {GithubProtection(FALSE, NilPtr, Ptr([Strict |-> FALSE, Contexts |-> Slice(<<>>)])),
     GithubProtection(TRUE, Ptr([RequiredApprovingReviewCount |-> 1,
                                 DismissStaleReviews |-> TRUE,
                                 RequireCodeOwnerReviews |-> FALSE]),
                      Ptr([Strict |-> FALSE, Contexts |-> Slice(<<"ci">>)])),
     GithubProtection(FALSE, NilPtr, NilPtr)}

\* the states of one remote branch: unprotected, or protected
RemoteBranchStates(n, commit) ==
    {RemoteBranch(n, commit, FALSE, NoGithubProtection)}
    \cup {RemoteBranch(n, commit, TRUE, p) : p \in RemoteProtections}

\* the branch lists of the remote: empty (a repository without a commit), or
\* the default branch followed by other branches
RemoteBranchLists(n) ==
    {<<>>}
    \cup {<<m>> : m \in RemoteBranchStates("main", "H")}
    \cup (IF n >= 2
          THEN {<<m, o>> : m \in RemoteBranchStates("main", "H"),
                           o \in RemoteBranchStates("old", "K")}
          ELSE {})

FileWebhooks ==
    {Webhook(0, u, v[1], v[2], v[3]) :
        u \in {"u1", "u2"},
        v \in {<<"json", "s1", Slice(<<"push">>)>>,
               <<"json", "s2", Slice(<<"push">>)>>,
               <<"form", "s1", Slice(<<"push">>)>>,
               <<"json", "s1", Slice(<<"push", "pr">>)>>}}

\* hooks of the remote without their IDs: several hooks may share a URL
RemoteHookValues ==
    {RemoteHook(0, Str(u), Str(v[1]), Str(v[2]), Slice(<<"push">>)) :
        u \in {"u1", "u3"},
        v \in {<<"json", MaskedSecret>>, <<"form", MaskedSecret>>, <<"json", "s1">>}}

\* GitHub numbers the hooks
Numbered(hooks) == [i \in 1..Len(hooks) |-> [hooks[i] EXCEPT !.ID = i]]

FileTopics == {NilSlice, Slice(<<"b", "a">>), Slice(<<"a", "b", "c">>)}

RemoteTopics == {Slice(<<>>), Slice(<<"b", "a">>)}

\* topic lists of at most n topics: a file without a topics key leaves the
\* slice nil, a list may name a topic twice and in any order
TopicLists(n) == {NilSlice} \cup {Slice(s) : s \in SeqsUpTo(Range(StringOrder), n)}

\* the topics GitHub reports: a JSON array, never nil
RemoteTopicLists(n) == {Slice(s) : s \in SeqsUpTo(Range(StringOrder), n)}

\* a remote with many entities: n labels, n hooks, the default branch and n - 1
\* other branches, all named by their number
ManyLabels(n) == [i \in 1..n |-> Label(ToString(i), "", "red")]

ManyBranches(main, n) ==
    [i \in 1..n |-> IF i = 1 THEN main
                    ELSE RemoteBranch(ToString(i), "K", FALSE, NoGithubProtection)]

ManyHooks(n) ==
    [i \in 1..n |-> RemoteHook(i, Str(ToString(i)), Str("json"), Str(MaskedSecret),
                               Slice(<<"push">>))]

\* the lengths of the remote lists the reader is run on: none, one, a full
\* page, and more than a page
ListLengths == {0, 1} \cup {PerPage + k : k \in 0..MaxOverflow}

\* hooks whose Config map holds something else than a string, or nothing, under
\* one of the three keys
MalformedHookValues ==
    {RemoteHook(0, NotAString, Str("json"), Str(MaskedSecret), Slice(<<"push">>)),
     RemoteHook(0, Str("u1"), NotAString, Str(MaskedSecret), Slice(<<"push">>)),
     RemoteHook(0, Str("u1"), Str("json"), NotAString, Slice(<<"push">>))}

Remote(repo, topics, labels, branches, hooks) ==
    [repo |-> repo, topics |-> topics, labels |-> labels, branches |-> branches,
     hooks |-> hooks, nextID |-> Len(hooks) + 1]

\* the snapshot GetSettingsFromGithub returns for the remote r when every
\* read succeeds and no conversion panics
Snapshot(r) ==
    [Repository |-> RepositoryOf(r.repo),
     Labels |-> [i \in 1..Len(FirstPage(r.labels)) |-> LabelOf(FirstPage(r.labels)[i])],
     Branches |-> [i \in 1..Len(FirstPage(r.branches)) |->
                    IF FirstPage(r.branches)[i].Protected
                    THEN ProtectedBranchOf(FirstPage(r.branches)[i])
                    ELSE UnprotectedBranchOf(FirstPage(r.branches)[i])],
     Webhooks |-> [i \in 1..Len(FirstPage(r.hooks)) |-> WebhookOf(FirstPage(r.hooks)[i])],
     Topics |-> r.topics]

SnapshotPanics(r) ==
    \/ \E i \in 1..Len(r.branches) : r.branches[i].Protected /\ ProtectionPanics(r.branches[i])
    \/ \E i \in 1..Len(r.hooks) : HookPanics(r.hooks[i])

----------------------------------------------------------------------------
(* Initial states and specifications.                                      *)

\* the program at position p, started on the settings file f and the remote r;
\* at a position inside Apply, settings and githubSettings hold what
\* GetSettingsFromFile and GetSettingsFromGithub returned
InitAt(p, f, r) ==
    /\ file = f
    /\ remote = r
    /\ settings = IF p = "load" THEN ZeroSettings ELSE Normalize(f)
    /\ githubSettings = IF p = "load" THEN ZeroSettings ELSE Snapshot(r)
    /\ pc = p
    /\ err = "none"
    /\ run = 1
    /\ calls = <<>>
    /\ kinds = <<>>
    /\ idx = 1
    /\ toCreate = <<>>
    /\ toUpdate = <<>>
    /\ deleteMap = EmptyMap

BaseFile == [ZeroSettings EXCEPT !.Repository = Repo("d1", FALSE)]

BaseRemote ==
    Remote(Repo("d1", FALSE), Slice(<<>>), <<>>,
           <<RemoteBranch("main", "H", FALSE, NoGithubProtection)>>, <<>>)

\* the whole program, run twice, on chosen settings files and remotes
ScenarioFiles ==
    {[Repository |-> Repo("d1", pages), Labels |-> l, Branches |-> b,
      Webhooks |-> w, Topics |-> t] :
        pages \in BOOLEAN,
        l \in {<<>>, <<Label("bug", "", "red"), Label("feat", "", "blue")>>},
        b \in {<<>>,
               <<Branch("main", Protection(FALSE, FALSE, 0, TRUE, Slice(<<>>))),
                 Branch("dev", Protection(FALSE, TRUE, 1, TRUE, Slice(<<"ci">>)))>>},
        w \in {<<>>,
               <<Webhook(0, "u1", "json", "s1", Slice(<<"push">>)),
                 Webhook(0, "u2", "form", "s2", Slice(<<"push">>))>>},
        t \in {NilSlice, Slice(<<"b", "a">>)}}

ScenarioRemotes ==
    {Remote(Repo(d, FALSE), t, l, b, Numbered(h)) :
        d \in {"d1", "d2"},
        t \in {Slice(<<>>), Slice(<<"a", "b">>)},
        l \in {<<>>, <<Label("bug", "", "blue"), Label("old", "", "red")>>},
        b \in {<<RemoteBranch("main", "H", FALSE, NoGithubProtection)>>,
               <<RemoteBranch("main", "H", TRUE,
                    GithubProtection(FALSE, NilPtr,
                        Ptr([Strict |-> FALSE, Contexts |-> Slice(<<>>)]))),
                 RemoteBranch("old", "K", TRUE,
                    GithubProtection(TRUE, NilPtr,
                        Ptr([Strict |-> TRUE, Contexts |-> Slice(<<>>)])))>>,
               <<RemoteBranch("main", "H", TRUE, GithubProtection(FALSE, NilPtr, NilPtr))>>},
        h \in {<<>>,
               <<RemoteHook(0, Str("u1"), Str("form"), Str(MaskedSecret), Slice(<<"push">>)),
                 RemoteHook(0, Str("u3"), Str("json"), Str(MaskedSecret), Slice(<<"push">>))>>,
               <<RemoteHook(0, Str("u1"), Str("json"), NotAString, Slice(<<"push">>))>>}}

Init == \E f \in ScenarioFiles, r \in ScenarioRemotes : InitAt("load", f, r)

Next ==
    \/ GetSettingsFromFile
    \/ GetSettingsFromFileError
    \/ GetRepository
    \/ ListLabels
    \/ ListBranches
    \/ GetBranchProtection
    \/ UnprotectedBranch
    \/ ListHooks
    \/ updateRepoSettingsEqual
    \/ updateRepoSettingsEdit
    \/ updateLabels
    \/ DeleteLabel
    \/ DeleteLabelEnd
    \/ CreateLabel
    \/ CreateLabelEnd
    \/ EditLabel
    \/ EditLabelEnd
    \/ updateBranchSettings
    \/ CreateBranch
    \/ CompareBranch
    \/ ClassifyBranchesEnd
    \/ RemoveBranchProtection
    \/ RemoveBranchProtectionEnd
    \/ UpdateBranchProtection
    \/ UpdateBranchProtectionEnd
    \/ updateWebhooks
    \/ CreateHook
    \/ CompareHook
    \/ ClassifyHooksEnd
    \/ DeleteHook
    \/ DeleteHookEnd
    \/ EditHook
    \/ EditHookEnd
    \/ updateTopicsSettingsEqual
    \/ ReplaceAllTopics
    \/ ApplyReturn
    \/ SecondRun

Spec == Init /\ [][Next]_vars

\* updateLabels on every pair of a desired and an actual label list
InitLabels ==
    \E d \in SeqsUpTo(FileLabels, MaxDesired),
       a \in {s \in SeqsUpTo(RemoteLabels, MaxRemote) : UniqueNames(s)} :
        InitAt("Labels", [BaseFile EXCEPT !.Labels = d], [BaseRemote EXCEPT !.labels = a])

NextLabels ==
    \/ updateLabels
    \/ DeleteLabel
    \/ DeleteLabelEnd
    \/ CreateLabel
    \/ CreateLabelEnd
    \/ EditLabel
    \/ EditLabelEnd

SpecLabels == InitLabels /\ [][NextLabels]_vars

\* updateBranchSettings on every pair of a desired and an actual branch list
InitBranches ==
    \E d \in SeqsUpTo(FileBranches, MaxDesired),
       a \in {l \in RemoteBranchLists(MaxRemote) : ~SnapshotPanics([BaseRemote EXCEPT !.branches = l])} :
        InitAt("Branches", [BaseFile EXCEPT !.Branches = d], [BaseRemote EXCEPT !.branches = a])

NextBranches ==
    \/ updateBranchSettings
    \/ CreateBranch
    \/ CompareBranch
    \/ ClassifyBranchesEnd
    \/ RemoveBranchProtection
    \/ RemoveBranchProtectionEnd
    \/ UpdateBranchProtection
    \/ UpdateBranchProtectionEnd

SpecBranches == InitBranches /\ [][NextBranches]_vars

\* updateWebhooks on every pair of a desired and an actual webhook list
InitHooks ==
    \E d \in SeqsUpTo(FileWebhooks, MaxDesired),
       a \in SeqsUpTo(RemoteHookValues, MaxRemote) :
        InitAt("Hooks", [BaseFile EXCEPT !.Webhooks = d],
               [BaseRemote EXCEPT !.hooks = Numbered(a), !.nextID = Len(a) + 1])

NextHooks ==
    \/ updateWebhooks
    \/ CreateHook
    \/ CompareHook
    \/ ClassifyHooksEnd
    \/ DeleteHook
    \/ DeleteHookEnd
    \/ EditHook
    \/ EditHookEnd

SpecHooks == InitHooks /\ [][NextHooks]_vars

\* updateTopicsSettings on every pair of a desired and a remote topic list
InitTopics ==
    \E d \in TopicLists(MaxDesired), a \in RemoteTopicLists(MaxRemote) :
        InitAt("Topics", [BaseFile EXCEPT !.Topics = d], [BaseRemote EXCEPT !.topics = a])

NextTopics ==
    \/ updateTopicsSettingsEqual
    \/ ReplaceAllTopics
    \/ ApplyReturn

SpecTopics == InitTopics /\ [][NextTopics]_vars

\* GetSettingsFromFile on every list of branches a settings file can hold
InitLoad ==
    \E d \in SeqsUpTo(RawBranches, MaxDesired) :
        InitAt("load", [BaseFile EXCEPT !.Branches = d], BaseRemote)

NextLoad ==
    \/ GetSettingsFromFile
    \/ GetSettingsFromFileError

SpecLoad == InitLoad /\ [][NextLoad]_vars

\* the program up to the return of GetSettingsFromGithub, on remotes with
\* short and long lists and with well-formed and malformed hooks
InitRead ==
    \E nl \in ListLengths, nb \in ListLengths \ {0},
       main \in RemoteBranchStates("main", "H"),
       h \in {ManyHooks(n) : n \in ListLengths}
              \cup {Numbered(a) : a \in SeqsUpTo(MalformedHookValues \cup {ManyHooks(1)[1]},
                                                 MaxRemote)} :
        InitAt("load", BaseFile,
               Remote(Repo("d1", FALSE), Slice(<<>>), ManyLabels(nl),
                      ManyBranches(main, nb), h))

NextRead ==
    \/ GetSettingsFromFile
    \/ GetSettingsFromFileError
    \/ GetRepository
    \/ ListLabels
    \/ ListBranches
    \/ GetBranchProtection
    \/ UnprotectedBranch
    \/ ListHooks

SpecRead == InitRead /\ [][NextRead]_vars

----------------------------------------------------------------------------
(* Properties.                                                             *)

CallIdx == 1..Len(calls)

WriteIdx == {i \in CallIdx : calls[i].op \in WriteOps}

OpIdx(op) == {i \in CallIdx : calls[i].op = op}

\* every call of op1 is issued before every call of op2
AllBefore(op1, op2) == \A i \in OpIdx(op1), j \in OpIdx(op2) : i < j

\* the resource kind a write belongs to, as its place in the documented order
KindRank(op) ==
    CASE op = "EditRepository" -> 1
      [] op \in {"CreateLabel", "EditLabel", "DeleteLabel"} -> 2
      [] op \in {"Push", "UpdateBranchProtection", "RemoveBranchProtection"} -> 3
      [] op \in {"CreateHook", "EditHook", "DeleteHook"} -> 4
      [] op = "ReplaceTopics" -> 5

DocumentedOrder == <<"Repo", "Labels", "Branches", "Hooks", "Topics">>

Names(s) == {s[i].Name : i \in 1..Len(s)}

\* C1: when the first run of the program has completed without an error, the
\* second run on the same settings file issues no write call
C1_SecondRunIssuesNoWrite == run = 2 => WriteIdx = {}

\* C2: a failed call is the last remote call of its run and Apply returns an
\* error; after a failed DeleteLabel the Branch, Webhook and Topic reconcilers
\* are never entered
C2_FailFast ==
    /\ \A i \in CallIdx :
        ~calls[i].ok => /\ i = Len(calls)
                        /\ pc = "done"
                        /\ err = "error"
    /\ (\E i \in OpIdx("DeleteLabel") : ~calls[i].ok)
        => Range(kinds) \cap {"Branches", "Hooks", "Topics"} = {}

\* a DeleteLabel call failed after a write that succeeded
C2_Witness ==
    \E i \in OpIdx("DeleteLabel") :
        /\ ~calls[i].ok
        /\ \E j \in WriteIdx : j < i /\ calls[j].ok

\* C3: a write is issued only after the reads of the repository, the labels,
\* the branches, the protection of every protected branch and the hooks have
\* succeeded; a run with a failed read issues no write and returns an error
C3_ReadBeforeWrite ==
    /\ \A w \in WriteIdx :
        /\ \A op \in {"GetRepository", "ListLabels", "ListBranches", "ListHooks"} :
            \E i \in OpIdx(op) : i < w /\ calls[i].ok
        /\ \A k \in 1..Len(githubSettings.Branches) :
            githubSettings.Branches[k].Protection.Enabled =>
                \E i \in OpIdx("GetBranchProtection") :
                    /\ i < w
                    /\ calls[i].ok
                    /\ calls[i].name = githubSettings.Branches[k].Name
    /\ (\E i \in CallIdx : calls[i].op \in ReadOps /\ ~calls[i].ok)
        => /\ WriteIdx = {}
           /\ pc = "done"
           /\ err = "error"

\* a write was issued after the protection of a protected branch was read
C3_Witness ==
    /\ WriteIdx # {}
    /\ OpIdx("GetBranchProtection") # {}

\* C4 as claimed: every CreateLabel before every DeleteLabel, every DeleteLabel
\* before every EditLabel
C4_CreateDeleteEdit ==
    /\ AllBefore("CreateLabel", "DeleteLabel")
    /\ AllBefore("DeleteLabel", "EditLabel")

\* C4 as amended: updateLabels issues every DeleteLabel before every CreateLabel,
\* and every CreateLabel and DeleteLabel before every EditLabel
C4_DeleteCreateEdit ==
    /\ AllBefore("DeleteLabel", "CreateLabel")
    /\ AllBefore("CreateLabel", "EditLabel")
    /\ AllBefore("DeleteLabel", "EditLabel")

\* updateLabels returned nil having deleted, created and edited a label
C4_Witness ==
    /\ pc = AfterKind("Labels")
    /\ err = "none"
    /\ OpIdx("DeleteLabel") # {}
    /\ OpIdx("CreateLabel") # {}
    /\ OpIdx("EditLabel") # {}

\* C5: updateWebhooks issues every CreateHook before every DeleteHook and every
\* DeleteHook before every EditHook
C5_HookOrder ==
    /\ AllBefore("CreateHook", "DeleteHook")
    /\ AllBefore("DeleteHook", "EditHook")
    /\ AllBefore("CreateHook", "EditHook")

\* updateWebhooks returned nil having created, deleted and edited a hook
C5_Witness ==
    /\ pc = AfterKind("Hooks")
    /\ err = "none"
    /\ OpIdx("CreateHook") # {}
    /\ OpIdx("DeleteHook") # {}
    /\ OpIdx("EditHook") # {}

\* C6: the reconcilers are entered in the order Repository, Labels, Branches,
\* Webhooks, Topics; the writes of a run are ordered by kind; a write belongs
\* to a reconciler that has been entered, and when a write of a later kind is
\* issued every call of the earlier kinds has succeeded
C6_KindOrder ==
    /\ kinds = SubSeq(DocumentedOrder, 1, Len(kinds))
    /\ \A i, j \in WriteIdx :
        i < j => /\ KindRank(calls[i].op) <= KindRank(calls[j].op)
                 /\ KindRank(calls[i].op) < KindRank(calls[j].op) => calls[i].ok
    /\ \A i \in WriteIdx : DocumentedOrder[KindRank(calls[i].op)] \in Range(kinds)

\* a run that has issued writes of all five kinds
C6_Witness ==
    /\ pc = "done"
    /\ err = "none"
    /\ {KindRank(calls[i].op) : i \in WriteIdx} = 1..5

\* C7: a successful updateLabels issues CreateLabel exactly for the desired
\* labels whose name is not among the actual ones, DeleteLabel exactly for the
\* actual names that are not desired, EditLabel exactly for the desired labels
\* whose name is actual and whose record differs, and no other call
C7_LabelDiff ==
    (pc = AfterKind("Labels") /\ err = "none") =>
        LET A == githubSettings.Labels
            D == settings.Labels
        IN  /\ {calls[i].arg : i \in OpIdx("CreateLabel")} =
                    {D[k] : k \in {x \in 1..Len(D) : D[x].Name \notin Names(A)}}
            /\ {calls[i].name : i \in OpIdx("DeleteLabel")} = Names(A) \ Names(D)
            /\ {calls[i].arg : i \in OpIdx("EditLabel")} =
                    {D[k] : k \in {x \in 1..Len(D) :
                                     /\ D[x].Name \in Names(A)
                                     /\ D[x] # LabelMap(A)[D[x].Name]}}
            /\ \A i \in CallIdx : calls[i].op \in {"CreateLabel", "DeleteLabel", "EditLabel"}

\* C8: the Materializer is invoked for no desired branch that has a remote
\* counterpart; in a successful run every desired branch without one is pushed
\* as refs/heads/<name> at the head commit of the default branch and receives
\* afterwards an UpdateBranchProtection carrying its desired protection
C8_BranchCreation ==
    LET A == githubSettings.Branches
        D == settings.Branches
    IN  /\ \A i \in OpIdx("Clone") \cup OpIdx("Push") : calls[i].name \notin Names(A)
        /\ (pc = AfterKind("Branches") /\ err = "none") =>
            \A k \in 1..Len(D) :
                D[k].Name \notin Names(A) =>
                    \E i \in OpIdx("Push"), j \in OpIdx("UpdateBranchProtection") :
                        /\ i < j
                        /\ calls[i].name = D[k].Name
                        /\ calls[i].arg = [ref |-> "refs/heads/" \o D[k].Name,
                                           hash |-> HeadCommit]
                        /\ calls[j].name = D[k].Name
                        /\ calls[j].arg = ProtectionRequest(D[k])

\* the run of updateBranchSettings is over
BranchesEnded == pc \in {"done", AfterKind("Branches")}

SnapshotHook(id) ==
    githubSettings.Webhooks[CHOOSE k \in 1..Len(githubSettings.Webhooks) :
                                githubSettings.Webhooks[k].ID = id]

\* C10: every EditHook is issued for a desired webhook whose content type or
\* events differ from the remote hook it was matched with; a difference of
\* the secrets alone never schedules or issues an EditHook
C10_SecretBlind ==
    /\ \A i \in OpIdx("EditHook") :
        \/ calls[i].arg.Config.content_type # SnapshotHook(calls[i].id).ContentType
        \/ calls[i].arg.Events # SnapshotHook(calls[i].id).Events
    /\ pc \in {"HooksClassify", "HooksDelete", "HooksUpdate"} =>
        \A k \in 1..Len(toUpdate) :
            \/ toUpdate[k].ContentType # SnapshotHook(toUpdate[k].ID).ContentType
            \/ toUpdate[k].Events # SnapshotHook(toUpdate[k].ID).Events

\* updateWebhooks returned nil without an EditHook for a desired webhook that
\* differs from its remote hook in the secret alone
C10_Witness ==
    /\ pc = AfterKind("Hooks")
    /\ err = "none"
    /\ \E k \in 1..Len(settings.Webhooks) :
        LET d == settings.Webhooks[k]
            m == WebhookMap(githubSettings.Webhooks)
        IN  /\ d.URL \in DOMAIN m
            /\ \A x \in 1..k - 1 : settings.Webhooks[x].URL # d.URL
            /\ m[d.URL].ContentType = d.ContentType
            /\ m[d.URL].Events = d.Events
            /\ m[d.URL].Secret # d.Secret
            /\ \A i \in OpIdx("EditHook") : calls[i].id # m[d.URL].ID

\* the topics of a list, as a set
TopicSet(sl) == Range(sl.elems)

\* C11: when updateTopicsSettings has run without a failed call it has issued
\* exactly one ReplaceTopics carrying the desired topic set if the remote and
\* the desired topics differ as sets, and no call if they are equal as sets,
\* whatever the order, the repetitions and the nil-ness of the two lists
C11_TopicSets ==
    (pc \in {"return", "done"} /\ err = "none") =>
        IF TopicSet(githubSettings.Topics) # TopicSet(file.Topics)
        THEN /\ Cardinality(OpIdx("ReplaceTopics")) = 1
             /\ \A i \in OpIdx("ReplaceTopics") : TopicSet(calls[i].arg) = TopicSet(file.Topics)
        ELSE OpIdx("ReplaceTopics") = {}

\* GetSettingsFromFile has returned a Settings value and no error
Loaded == pc = "GetRepository" /\ err = "none"

\* C12: in the Settings GetSettingsFromFile returns, every branch of the file
\* has Protection.Enabled = true; a branch with a review count of 0 has
\* DismissStaleReviews and RequireCodeOwnerReviews false whatever the file
\* says, a branch with another count keeps the flags of the file
C12_LoadNormalized ==
    Loaded =>
        /\ Len(settings.Branches) = Len(file.Branches)
        /\ \A i \in 1..Len(settings.Branches) :
            LET raw == file.Branches[i].Protection.RequiredApprovingReviewCount
                got == settings.Branches[i].Protection.RequiredApprovingReviewCount
            IN  /\ settings.Branches[i].Name = file.Branches[i].Name
                /\ settings.Branches[i].Protection.Enabled
                /\ got.RequiredApprovingReviewCount = raw.RequiredApprovingReviewCount
                /\ raw.RequiredApprovingReviewCount = 0 =>
                        /\ ~got.DismissStaleReviews
                        /\ ~got.RequireCodeOwnerReviews
                /\ raw.RequiredApprovingReviewCount # 0 =>
                        /\ got.DismissStaleReviews = raw.DismissStaleReviews
                        /\ got.RequireCodeOwnerReviews = raw.RequireCodeOwnerReviews

\* a file was loaded that disables the protection of a branch with count 0 and
\* both flags set, and lists a branch with a count of 1 and both flags set
C12_Witness ==
    /\ Loaded
    /\ \E i, j \in 1..Len(file.Branches) :
        LET zero == file.Branches[i].Protection
            one == file.Branches[j].Protection
        IN  /\ ~zero.Enabled
            /\ zero.RequiredApprovingReviewCount.RequiredApprovingReviewCount = 0
            /\ zero.RequiredApprovingReviewCount.DismissStaleReviews
            /\ zero.RequiredApprovingReviewCount.RequireCodeOwnerReviews
            /\ one.RequiredApprovingReviewCount.RequiredApprovingReviewCount = 1
            /\ one.RequiredApprovingReviewCount.DismissStaleReviews
            /\ one.RequiredApprovingReviewCount.RequireCodeOwnerReviews

\* C13: when ListHooks has answered with a hook whose url, content_type or
\* secret is missing or is not a string, GetSettingsFromGithub returns an
\* error: the program is at its end with that error, no snapshot of the hooks
\* was produced and no write was issued
C13_MalformedIsReadError ==
    (/\ \E i \in OpIdx("ListHooks") : calls[i].ok
     /\ \E k \in 1..Len(FirstPage(remote.hooks)) : HookPanics(FirstPage(remote.hooks)[k]))
        => /\ pc = "done"
           /\ err = "error"
           /\ githubSettings.Webhooks = <<>>
           /\ WriteIdx = {}

\* GetSettingsFromGithub has returned its snapshot and no error
SnapshotReturned == pc = ApplyOrder[1] /\ err = "none"

\* C18: the snapshot GetSettingsFromGithub returns holds every label, every
\* branch and every hook of the remote repository, however many there are
C18_CompleteSnapshot ==
    SnapshotReturned =>
        /\ Names(githubSettings.Labels) = Names(remote.labels)
        /\ Names(githubSettings.Branches) = Names(remote.branches)
        /\ {githubSettings.Webhooks[i].ID : i \in 1..Len(githubSettings.Webhooks)}
                = {remote.hooks[i].ID : i \in 1..Len(remote.hooks)}

\* the calls of RemoveBranchProtection issued for the branch `name`
RemovalsOf(name) == {i \in OpIdx("RemoveBranchProtection") : calls[i].name = name}

\* C14: a successful updateBranchSettings issues RemoveBranchProtection once
\* for every branch of githubBranches whose name is not desired, protected or
\* not, and for no other name; no run issues it for a desired name, and in no
\* run does a branch of githubBranches disappear from the remote (the calls
\* are clones, pushes of a branch at the head commit, removals and updates of
\* a protection)
C14_RemovalNotDeletion ==
    LET A == githubSettings.Branches
        D == settings.Branches
    IN  /\ (pc = AfterKind("Branches") /\ err = "none") =>
                /\ \A n \in Names(A) \ Names(D) : Cardinality(RemovalsOf(n)) = 1
                /\ \A i \in OpIdx("RemoveBranchProtection") :
                        calls[i].name \in Names(A) \ Names(D)
        /\ \A i \in OpIdx("RemoveBranchProtection") : calls[i].name \notin Names(D)
        /\ Names(A) \subseteq Names(remote.branches)
        /\ \A i \in CallIdx :
                /\ calls[i].op \in {"Clone", "Push", "RemoveBranchProtection",
                                    "UpdateBranchProtection"}
                /\ calls[i].op = "Push" => calls[i].arg.hash = HeadCommit

\* updateBranchSettings returned nil having issued RemoveBranchProtection for
\* an unprotected remote branch, with a desired branch that exists remotely
C14_Witness ==
    /\ pc = AfterKind("Branches")
    /\ err = "none"
    /\ Names(settings.Branches) \cap Names(githubSettings.Branches) # {}
    /\ \E i \in OpIdx("RemoveBranchProtection") :
        \E k \in 1..Len(githubSettings.Branches) :
            /\ githubSettings.Branches[k].Name = calls[i].name
            /\ ~githubSettings.Branches[k].Protection.Enabled

URLs(s) == {s[i].URL : i \in 1..Len(s)}

\* C15: no CreateLabel, no branch creation (clone and push of createBranch) and
\* no CreateHook is issued for a label name, a branch name or a webhook URL of
\* the snapshot read at the start of the run, also when the desired list
\* names an identity more than once
C15_CreatesOnlyUnseen ==
    /\ \A i \in OpIdx("CreateLabel") : calls[i].name \notin Names(githubSettings.Labels)
    /\ \A i \in OpIdx("Clone") \cup OpIdx("Push") :
            calls[i].name \notin Names(githubSettings.Branches)
    /\ \A i \in OpIdx("CreateHook") : calls[i].name \notin URLs(githubSettings.Webhooks)

\* the calls of UpdateBranchProtection issued for the branch `name`
UpdatesOf(name) == {i \in OpIdx("UpdateBranchProtection") : calls[i].name = name}

\* C16: when updateBranchSettings has returned nil, a desired branch whose name
\* is in githubBranches has received an UpdateBranchProtection (carrying its
\* desired protection) if and only if the record of githubBranches differs
\* from the desired record, Protection.Enabled included; so a desired branch
\* that is remotely unprotected has received one
C16_UpdateIffDiffers ==
    (pc = AfterKind("Branches") /\ err = "none") =>
        LET A == githubSettings.Branches
            D == settings.Branches
        IN  \A k \in 1..Len(D) :
                D[k].Name \in Names(A) =>
                    /\ UpdatesOf(D[k].Name) # {} <=> BranchMap(A)[D[k].Name] # D[k]
                    /\ BranchMap(A)[D[k].Name] # D[k] =>
                            \E j \in UpdatesOf(D[k].Name) :
                                calls[j].arg = ProtectionRequest(D[k])
                    /\ ~BranchMap(A)[D[k].Name].Protection.Enabled =>
                            UpdatesOf(D[k].Name) # {}

\* C17: when updateWebhooks has returned nil, CreateHook has been issued
\* exactly for the desired webhooks whose URL is the URL of no hook of
\* githubWebhooks; every EditHook carries the ID of a hook of githubWebhooks
\* whose URL is the URL of a desired webhook, with the content type, the secret
\* and the events of that webhook; every DeleteHook carries the ID of a hook
\* of githubWebhooks whose URL no desired webhook has
C17_HookIdentity ==
    (pc = AfterKind("Hooks") /\ err = "none") =>
        LET A == githubSettings.Webhooks
            D == settings.Webhooks
        IN  /\ \A i \in OpIdx("CreateHook") : calls[i].name \notin URLs(A)
            /\ {calls[i].arg : i \in OpIdx("CreateHook")} =
                    {HookRequest(D[k]) : k \in {x \in 1..Len(D) : D[x].URL \notin URLs(A)}}
            /\ \A i \in OpIdx("EditHook") :
                    \E k \in 1..Len(D), a \in 1..Len(A) :
                        /\ A[a].URL = D[k].URL
                        /\ calls[i].id = A[a].ID
                        /\ calls[i].arg = HookRequest(D[k])
            /\ \A i \in OpIdx("DeleteHook") :
                    \E a \in 1..Len(A) :
                        /\ calls[i].id = A[a].ID
                        /\ A[a].URL \notin URLs(D)

\* C19: when updateWebhooks has returned nil, one DeleteHook has been issued
\* for every hook of githubWebhooks whose URL no desired webhook has, also
\* when several hooks share that URL, and the remote holds no hook of a URL
\* that is not desired
C19_AllUndesiredDeleted ==
    (pc = AfterKind("Hooks") /\ err = "none") =>
        LET A == githubSettings.Webhooks
            D == settings.Webhooks
        IN  /\ \A a \in 1..Len(A) :
                    A[a].URL \notin URLs(D) =>
                        Cardinality({i \in OpIdx("DeleteHook") : calls[i].id = A[a].ID}) = 1
            /\ \A h \in 1..Len(remote.hooks) :
                    remote.hooks[h].Config.url.val \in URLs(D)

\* C20: once Apply has been called, and after it has returned with or without
\* an error, the Settings value of the caller is the one GetSettingsFromFile
\* returned: the order of its Topics, the ID and the Secret of its Webhooks
\* and everything else are unchanged
C20_InputUnchanged == calls # <<>> => settings = Normalize(file)

====
